---- MODULE Spec2Model ----
(***************************************************************************)
(* CrossValidatedTransferError._call (mvpa/algorithms/cvtranserror.py).    *)
(*                                                                         *)
(* One engine object, the TransferError instances reachable from it, and   *)
(* the frame of one _call at a time.  A run is cut at the points where the *)
(* engine hands control to a collaborator: the splitter (next fold), the   *)
(* TransferError (evaluation of the fold) and the end of the loop.         *)
(*                                                                         *)
(* Collaborators are modelled at their interface:                          *)
(*   - the splitter yields, per fold k, a pair <<train, test>>; the test   *)
(*     partition of fold k holds sample k, the training partition may be   *)
(*     None, and both present partitions carry the same 'lastsplit' flag;  *)
(*   - evaluating fold k on an instance trains its classifier on the       *)
(*     training partition when present, and returns an error value that    *)
(*     depends on the test partition, on what the classifier was trained   *)
(*     on and on whether the classifier sees the test dataset.             *)
(***************************************************************************)
EXTENDS Integers, Sequences, FiniteSets, TLC

\* ---- bounds -------------------------------------------------------------
MaxFolds == 2
MaxRuns == 2

\* ---- names of the state variables of the engine -------------------------
EngineStates ==
  {"results", "splits", "transerrors", "confusion", "training_confusion", "samples_error"}

\* the loop of line 136: states the engine may switch on in the TransferError
ChildStates == {"confusion", "training_confusion", "samples_error"}

\* enablement a caller's TransferError may come with
InitialTerrEnabled == {{}, {"training_confusion"}}

VARIABLES
  enabled,            \* self.states.enabled of the engine
  expose_testdataset, \* self.__expose_testdataset
  held,               \* self.__transerror (an instance id)
  inst,               \* heap: instance id -> TransferError (with its clf)
  states,             \* self.states.<name>.value of the engine
  pc,                 \* "idle" | "loop" | "eval"
  dataset,            \* argument of the running _call
  results,            \* local 'results'
  terr_enable,        \* local 'terr_enable'
  clf,                \* local 'clf' (id of the instance owning that clf)
  clf_hastestdataset, \* local 'clf_hastestdataset'
  transerror,         \* local 'transerror' (0: not bound yet)
  split,              \* local 'split' (loop variable)
  outcome,            \* how the last _call ended
  runs,               \* number of _call started
  hist,               \* per run: folds yielded, evaluators, collaborator calls
  start,              \* per run: what the caller's TransferError looked like
  ref,                \* the same run on an engine with no state enabled
  twin                \* the same run on an engine with expose_testdataset off

vars == <<enabled, expose_testdataset, held, inst, states, pc, dataset, results,
          terr_enable, clf, clf_hastestdataset, transerror, split, outcome,
          runs, hist, start, ref, twin>>

config == <<enabled, expose_testdataset>>
frame == <<dataset, results, terr_enable, clf, clf_hastestdataset, transerror, split>>

\* ---- datasets and folds -------------------------------------------------
\* A dataset: its origids and whether it has a labels_map attribute.
Datasets ==
  { [origids |-> {1, 2}, labels_map |-> TRUE],
    [origids |-> {1}, labels_map |-> FALSE] }

NoneDs == [part |-> 0, lastsplit |-> FALSE]

IsNone(ds) == ds.part = 0

Partition(k, last) == [part |-> k, lastsplit |-> last]

\* what the splitter may yield as its k-th fold
FoldsAt(k) ==
  UNION { { <<tr, Partition(k, last)>> : tr \in {NoneDs, Partition(k, last)} } :
          last \in BOOLEAN }

\* origids of a partition: the test partition of fold k holds sample k
OrigIds(ds) == IF IsNone(ds) THEN {} ELSE {ds.part}

\* ---- collaborators -------------------------------------------------------
\* clf._summaryClass(): an empty confusion matrix without labels_map
summaryClass == [matrix |-> <<<<0, 0>>, <<0, 0>>>>, labels_map |-> FALSE]

\* ConfusionMatrix.__iadd__: element-wise sum into the left operand
Iadd(acc, other) ==
  [acc EXCEPT !.matrix =
     [i \in 1..2 |-> [j \in 1..2 |-> acc.matrix[i][j] + other.matrix[i][j]]]]

\* the classifier after TransferError trained it (or not) for a fold
TrainedAfter(te, sp) == IF IsNone(sp[1]) THEN te.trained ELSE sp[1].part

\* the error value TransferError returns for a fold
ErrorFx(testds, trained, sees) ==
  100 * testds.part + 10 * trained + (IF sees THEN 1 ELSE 0)

\* does the classifier of instance te see the test dataset of the fold
Sees(te, sp) == te.hastestdataset /\ te.testdataset = sp[2].part

\* transerror.states.confusion of the evaluation of a fold
TerrConfusion(trained) ==
  [matrix |-> IF trained = 0 THEN <<<<0, 1>>, <<1, 0>>>> ELSE <<<<1, 0>>, <<0, 1>>>>,
   labels_map |-> FALSE]

\* transerror.states.training_confusion of the evaluation of a fold
TerrTrainingConfusion(sp) ==
  [matrix |-> IF IsNone(sp[1]) THEN <<<<0, 0>>, <<0, 0>>>> ELSE <<<<1, 0>>, <<0, 1>>>>,
   labels_map |-> FALSE]

\* transerror.states.samples_error of the evaluation of a fold
TerrSamplesError(sp, err) == [id \in OrigIds(sp[2]) |-> err]

RECURSIVE Sum(_)
Sum(s) == IF s = <<>> THEN 0 ELSE Head(s) + Sum(Tail(s))

\* GrandMean: the mean as the fraction <<sum, count>>; of nothing, nan (<<0, 0>>)
GrandMean(x) == <<Sum(x), Len(x)>>

\* StateCollection._changeTemporarily(enable_states=...)
ChangeTemporarily(te, names) ==
  [te EXCEPT !.stored = Append(@, te.enabled), !.enabled = @ \cup names]

\* StateCollection._resetEnabledTemporarily()
ResetEnabledTemporarily(te) ==
  [te EXCEPT !.enabled = te.stored[Len(te.stored)],
             !.stored = SubSeq(@, 1, Len(@) - 1)]

\* TransferError.untrain()
Untrain(te) == [te EXCEPT !.trained = 0]

\* assignment to a state variable: kept only when the variable is enabled
SetState(st, name, value) ==
  IF name \in enabled THEN [st EXCEPT ![name] = value] ELSE st

\* ---- the heap ------------------------------------------------------------
\* deepcopy(te): a new object with the same content, classifier included
Deepcopy(te) == te

\* the id of the next object created
NewId == CHOOSE n \in 1..(Cardinality(DOMAIN inst) + 1) : n \notin DOMAIN inst

\* objects still referenced when the engine drops its list of transerrors:
\* the one the engine holds and the one the caller constructed it with
Live == {1, held}

\* ---- construction ---------------------------------------------------------
EmptyStates ==
  [results |-> <<>>, splits |-> <<>>, transerrors |-> <<>>,
   confusion |-> summaryClass, training_confusion |-> summaryClass,
   samples_error |-> [id \in {} |-> <<>>]]

NoDataset == [origids |-> {}, labels_map |-> FALSE]

NoOutcome == [kind |-> "none", error |-> "", value |-> <<0, 0>>]

EmptyHist ==
  [folds |-> <<>>, evalBy |-> <<>>, returned |-> <<>>, child |-> <<>>,
   calls |-> <<>>, combined |-> <<>>]

Init ==
  /\ enabled \in SUBSET EngineStates
  /\ expose_testdataset \in BOOLEAN
  /\ held = 1
  /\ \E en \in InitialTerrEnabled, has \in BOOLEAN :
       inst = [i \in {1} |->
                 [trained |-> 0, enabled |-> en, stored |-> <<>>,
                  hastestdataset |-> has, testdataset |-> 0]]
  /\ states = EmptyStates
  /\ pc = "idle"
  /\ dataset = NoDataset
  /\ results = <<>>
  /\ terr_enable = {}
  /\ clf = 1
  /\ clf_hastestdataset = FALSE
  /\ transerror = 0
  /\ split = <<NoneDs, NoneDs>>
  /\ outcome = NoOutcome
  /\ runs = 0
  /\ hist = EmptyHist
  /\ start = [held |-> 1, enabled |-> {}, trained |-> 0]
  /\ ref = [trained |-> 0, results |-> <<>>]
  /\ twin = [calls |-> <<>>, results |-> <<>>]

\* ---- _call, lines 125-158: everything before the loop ---------------------
\* line 147 as a plain empty dict
InitialSamplesErrorEmpty(ds) == [id \in {} |-> <<>>]

\* line 147
InitialSamplesError(ds) == [id \in ds.origids |-> <<>>]

\* lines 135-138 without the isEnabled test
TerrEnableAll == ChildStates

\* lines 135-138: local 'terr_enable'
TerrEnable == enabled \cap ChildStates

\* lines 151-158 untraining whatever is enabled
PreparedUntrained(te, names) ==
  Untrain(IF names # {} THEN ChangeTemporarily(te, names) ELSE te)

\* the TransferError the engine holds, after lines 151-158
Prepared(te, names) ==
  LET t1 == IF names # {} THEN ChangeTemporarily(te, names) ELSE te
  IN IF "transerrors" \in enabled THEN Untrain(t1) ELSE t1

PrepareCalls(names) ==
  (IF names # {} THEN <<"_changeTemporarily">> ELSE <<>>)
  \o (IF "transerrors" \in enabled THEN <<"untrain">> ELSE <<>>)

BeginRun(ds) ==
  /\ pc = "idle"
  /\ runs < MaxRuns
  /\ runs' = runs + 1
  /\ dataset' = ds
  /\ results' = <<>>
  /\ clf' = held
  /\ terr_enable' = TerrEnable
  /\ clf_hastestdataset' = inst[held].hastestdataset
  /\ states' =
       LET s1 == SetState(states, "splits", <<>>)
           s2 == SetState(s1, "confusion", summaryClass)
           s3 == SetState(s2, "training_confusion", summaryClass)
           s4 == SetState(s3, "transerrors", <<>>)
       IN SetState(s4, "samples_error", InitialSamplesError(ds))
  /\ inst' = [i \in Live |->
                IF i = held THEN Prepared(inst[i], TerrEnable)
                ELSE inst[i]]
  /\ transerror' = 0
  /\ split' = <<NoneDs, NoneDs>>
  /\ outcome' = NoOutcome
  /\ hist' = [EmptyHist EXCEPT !.calls = PrepareCalls(TerrEnable)]
  /\ start' = [held |-> held, enabled |-> inst[held].enabled,
               trained |-> inst[held].trained]
  /\ ref' = [trained |-> inst[held].trained, results |-> <<>>]
  /\ twin' = [calls |-> PrepareCalls(TerrEnable), results |-> <<>>]
  /\ pc' = "loop"
  /\ UNCHANGED <<config, held>>

\* ---- _call, lines 161-191: the splitter yields a fold ---------------------
\* lines 170-174 looking at the training dataset only
LastsplitOfTraining(sp) == sp[1].lastsplit

\* lines 170-174: the flag of the first dataset of the split that is not None
Lastsplit(sp) ==
  IF ~IsNone(sp[1]) THEN sp[1].lastsplit
  ELSE IF ~IsNone(sp[2]) THEN sp[2].lastsplit
  ELSE FALSE

\* lines 167-183: does the fold run on self.__transerror itself
UseMother(sp) == IF "transerrors" \in enabled THEN Lastsplit(sp) ELSE TRUE

\* lines 186, 194 without the hasattr test
ExposesUnchecked == expose_testdataset

\* lines 186, 194: is clf.testdataset written around the evaluation
Exposes == clf_hastestdataset /\ expose_testdataset

\* clf.testdataset = v: the assignment creates the attribute when missing
SetTestdataset(te, v) == [te EXCEPT !.hastestdataset = TRUE, !.testdataset = v]

Raise(err) == [kind |-> "raised", error |-> err, value |-> <<0, 0>>]

NextFold(sp) ==
  /\ pc = "loop"
  /\ Len(hist.folds) < MaxFolds
  /\ sp \in FoldsAt(Len(hist.folds) + 1)
  /\ split' = sp
  /\ states' = IF "splits" \in enabled
                 THEN [states EXCEPT !.splits = Append(@, sp)] ELSE states
  /\ LET te == IF UseMother(sp) THEN held ELSE NewId
         heap == [i \in DOMAIN inst \cup {te} |->
                    IF i \in DOMAIN inst THEN inst[i] ELSE Deepcopy(inst[held])]
         copied == IF UseMother(sp) THEN <<>> ELSE <<"deepcopy">>
     IN /\ transerror' = te
        /\ inst' = IF Exposes
                     THEN [heap EXCEPT ![clf] = SetTestdataset(@, sp[2].part)]
                     ELSE heap
        /\ hist' = [hist EXCEPT
                      !.folds = Append(@, sp),
                      !.evalBy = Append(@, te),
                      !.calls = @ \o <<"split">> \o copied
                                  \o (IF Exposes THEN <<"expose">> ELSE <<>>)
                                  \o <<"transerror">>]
        /\ twin' = [twin EXCEPT
                      !.calls = @ \o <<"split">> \o copied \o <<"transerror">>]
  /\ pc' = "eval"
  /\ UNCHANGED <<config, held, dataset, results, terr_enable, clf,
                 clf_hastestdataset, outcome, runs, start, ref>>

\* the splitter raises instead of yielding
SplitterRaises ==
  /\ pc = "loop"
  /\ Len(hist.folds) < MaxFolds
  /\ hist' = [hist EXCEPT !.calls = Append(@, "split")]
  /\ twin' = [twin EXCEPT !.calls = Append(@, "split")]
  /\ outcome' = Raise("SplitterError")
  /\ pc' = "idle"
  /\ UNCHANGED <<config, held, inst, states, frame, runs, start, ref>>

\* ---- _call, lines 191-221: the evaluation returns -------------------------
\* the heap after transerror(split[1], split[0]) and line 195
Evaluated ==
  LET h == [inst EXCEPT ![transerror].trained = TrainedAfter(inst[transerror], split)]
  IN IF Exposes THEN [h EXCEPT ![clf] = SetTestdataset(@, 0)] ELSE h

\* local 'result' of line 191
Result ==
  ErrorFx(split[2], TrainedAfter(inst[transerror], split), Sees(inst[transerror], split))

\* what the states of the evaluating TransferError hold after the evaluation
ChildSamplesError ==
  IF "samples_error" \in inst[transerror].enabled
    THEN TerrSamplesError(split, Result) ELSE [id \in {} |-> 0]

ChildConfusion ==
  IF "confusion" \in inst[transerror].enabled
    THEN TerrConfusion(TrainedAfter(inst[transerror], split)) ELSE summaryClass

ChildTrainingConfusion ==
  IF "training_confusion" \in inst[transerror].enabled
    THEN TerrTrainingConfusion(split) ELSE summaryClass

\* the states of the evaluating TransferError the engine may pull in
Child ==
  [confusion |-> ChildConfusion, training_confusion |-> ChildTrainingConfusion,
   samples_error |-> ChildSamplesError]

\* line 210 fails: a key of the child's samples_error is not a key of ours
SamplesErrorKeyError ==
  /\ "samples_error" \in enabled
  /\ \E k \in DOMAIN ChildSamplesError : k \notin DOMAIN states.samples_error

\* lines 202-203
WithTranserror(st) ==
  IF "transerrors" \in enabled
    THEN [st EXCEPT !.transerrors = Append(@, transerror)] ELSE st

\* lines 207-210
WithSamplesError(st) ==
  IF "samples_error" \in enabled
    THEN [st EXCEPT !.samples_error =
            [id \in DOMAIN @ |->
               IF id \in DOMAIN ChildSamplesError
                 THEN Append(@[id], ChildSamplesError[id]) ELSE @[id]]]
    ELSE st

\* lines 213-216 assigning the child's matrix instead of adding it
WithConfusionsAssigned(st) ==
  LET s1 == IF "confusion" \in enabled
              THEN [st EXCEPT !.confusion = ChildConfusion] ELSE st
  IN IF "training_confusion" \in enabled
       THEN [s1 EXCEPT !.training_confusion = ChildTrainingConfusion]
       ELSE s1

\* lines 213-216
WithConfusions(st) ==
  LET s1 == IF "confusion" \in enabled
              THEN [st EXCEPT !.confusion = Iadd(@, ChildConfusion)] ELSE st
  IN IF "training_confusion" \in enabled
       THEN [s1 EXCEPT !.training_confusion = Iadd(@, ChildTrainingConfusion)]
       ELSE s1

\* the same fold on the engine with no state enabled: it always evaluates on
\* the TransferError it was constructed with, whose classifier is 'clf'
RefAfter ==
  LET tr == IF IsNone(split[1]) THEN ref.trained ELSE split[1].part
  IN [trained |-> tr, results |-> Append(ref.results, ErrorFx(split[2], tr, Exposes))]

\* the same fold on the engine with expose_testdataset off: it never writes
\* clf.testdataset, so no classifier sees the test dataset
TwinAfter ==
  [twin EXCEPT !.results =
     Append(@, ErrorFx(split[2], TrainedAfter(inst[transerror], split), FALSE))]

\* line 221 putting the newest result first
AppendResultFirst(rs, r) == <<r>> \o rs

\* line 221
AppendResult(rs, r) == Append(rs, r)

EvalReturns ==
  /\ pc = "eval"
  /\ ~SamplesErrorKeyError
  /\ inst' = Evaluated
  /\ states' = WithConfusions(WithSamplesError(WithTranserror(states)))
  /\ results' = AppendResult(results, Result)
  /\ hist' = [hist EXCEPT !.returned = Append(@, Result), !.child = Append(@, Child)]
  /\ ref' = RefAfter
  /\ twin' = TwinAfter
  /\ pc' = "loop"
  /\ UNCHANGED <<config, held, dataset, terr_enable, clf, clf_hastestdataset,
                 transerror, split, outcome, runs, start>>

\* the evaluation returns and line 210 raises KeyError
EvalReturnsKeyError ==
  /\ pc = "eval"
  /\ SamplesErrorKeyError
  /\ inst' = Evaluated
  /\ states' = WithTranserror(states)
  /\ ref' = RefAfter
  /\ twin' = TwinAfter
  /\ hist' = [hist EXCEPT !.returned = Append(@, Result), !.child = Append(@, Child)]
  /\ outcome' = Raise("KeyError")
  /\ pc' = "idle"
  /\ UNCHANGED <<config, held, frame, runs, start>>

\* transerror(split[1], split[0]) raises and the engine empties what it collected
EvalRaisesRollback ==
  /\ pc = "eval"
  /\ outcome' = Raise("EvalError")
  /\ states' = [states EXCEPT !.splits = <<>>, !.transerrors = <<>>,
                              !.confusion = summaryClass,
                              !.training_confusion = summaryClass,
                              !.samples_error = [id \in DOMAIN @ |-> <<>>]]
  /\ pc' = "idle"
  /\ UNCHANGED <<config, held, inst, frame, runs, hist, start, ref, twin>>

\* transerror(split[1], split[0]) raises
EvalRaises ==
  /\ pc = "eval"
  /\ outcome' = Raise("EvalError")
  /\ pc' = "idle"
  /\ UNCHANGED <<config, held, inst, states, frame, runs, hist, start, ref, twin>>

\* ---- _call, lines 223-242: the splitter is exhausted ----------------------
\* line 224 left out: the engine keeps the instance it had
ReboundMother == held

\* line 224 binding the instance of the first fold
ReboundFirst == hist.evalBy[1]

\* line 224
Rebound == transerror

\* lines 226-228 on the TransferError bound by line 224
Restored(te) == IF terr_enable # {} THEN ResetEnabledTemporarily(te) ELSE te

\* line 228 raises when nothing was stored on that TransferError
RestoreFails == terr_enable # {} /\ inst[Rebound].stored = <<>>

\* lines 234-240: labels_map of the dataset, when it has one, on the enabled
\* confusion matrices; an AttributeError leaves both as they are
WithLabelsMap(st) ==
  IF ~dataset.labels_map THEN st
  ELSE LET s1 == IF "confusion" \in enabled
                   THEN [st EXCEPT !.confusion.labels_map = TRUE] ELSE st
       IN IF "training_confusion" \in enabled
            THEN [s1 EXCEPT !.training_confusion.labels_map = TRUE] ELSE s1

\* lines 235-238 raise: the dataset has no labels_map to read
LabelsMapError ==
  ~dataset.labels_map /\ enabled \cap {"confusion", "training_confusion"} # {}

\* lines 239-240 catching nothing
EscapesUncaught(raised) == raised

\* lines 239-240: does what the try block raised leave _call (bare except: no)
Escapes(raised) == FALSE

\* line 230
WithResults(st) == IF "results" \in enabled THEN [st EXCEPT !.results = results] ELSE st

Return(v) == [kind |-> "returned", error |-> "", value |-> v]

\* the loop ends after at least one fold
EndLoop ==
  /\ pc = "loop"
  /\ transerror # 0
  /\ held' = Rebound
  /\ IF RestoreFails
       THEN /\ outcome' = Raise("ValueError")
            /\ UNCHANGED <<inst, states, hist, twin>>
       ELSE IF Escapes(LabelsMapError)
       THEN /\ inst' = [inst EXCEPT ![Rebound] = Restored(@)]
            /\ states' = WithResults(states)
            /\ hist' = [hist EXCEPT
                          !.calls = @ \o (IF terr_enable # {}
                                            THEN <<"_resetEnabledTemporarily">>
                                            ELSE <<>>)]
            /\ twin' = [twin EXCEPT
                          !.calls = @ \o (IF terr_enable # {}
                                            THEN <<"_resetEnabledTemporarily">>
                                            ELSE <<>>)]
            /\ outcome' = Raise("AttributeError")
       ELSE /\ inst' = [inst EXCEPT ![Rebound] = Restored(@)]
            /\ states' = WithLabelsMap(WithResults(states))
            /\ hist' = [hist EXCEPT
                          !.calls = @ \o (IF terr_enable # {}
                                            THEN <<"_resetEnabledTemporarily">>
                                            ELSE <<>>)
                                      \o <<"combiner">>,
                          !.combined = Append(@, results)]
            /\ twin' = [twin EXCEPT
                          !.calls = @ \o (IF terr_enable # {}
                                            THEN <<"_resetEnabledTemporarily">>
                                            ELSE <<>>)
                                      \o <<"combiner">>]
            /\ outcome' = Return(GrandMean(results))
  /\ pc' = "idle"
  /\ UNCHANGED <<config, frame, runs, start, ref>>

\* the loop ends before any fold: line 224 reads a local that was never bound
EndLoopUnbound ==
  /\ pc = "loop"
  /\ transerror = 0
  /\ outcome' = Raise("UnboundLocalError")
  /\ pc' = "idle"
  /\ UNCHANGED <<config, held, inst, states, frame, runs, hist, start, ref, twin>>

\* ---- the specification ------------------------------------------------------
Next ==
  \/ \E ds \in Datasets : BeginRun(ds)
  \/ \E sp \in FoldsAt(Len(hist.folds) + 1) : NextFold(sp)
  \/ SplitterRaises
  \/ EvalReturns
  \/ EvalReturnsKeyError
  \/ EvalRaises
  \/ EndLoop
  \/ EndLoopUnbound

Spec == Init /\ [][Next]_vars

TypeOK ==
  /\ enabled \subseteq EngineStates
  /\ pc \in {"idle", "loop", "eval"}
  /\ held \in DOMAIN inst
  /\ 1 \in DOMAIN inst
  /\ runs \in 0..MaxRuns
  /\ Len(hist.folds) <= MaxFolds

\* ---- properties -------------------------------------------------------------
\* a _call has ended
Ended == pc = "idle" /\ outcome.kind # "none"

\* folds the splitter yielded in this run
N == Len(hist.folds)

\* the run went through N >= 1 folds and neither splitter nor evaluation failed
C1_Case == Ended /\ N >= 1 /\ outcome.error \notin {"EvalError", "SplitterError"}

\* no fold reports a sample id outside the dataset while samples_error is on
C1_IdsKnown ==
  "samples_error" \in enabled =>
     \A i \in 1..N : OrigIds(hist.folds[i][2]) \subseteq dataset.origids

C1_Built ==
  /\ outcome.kind = "returned"
  /\ Len(results) = N
  /\ results = hist.returned
  /\ hist.combined = <<hist.returned>>
  /\ outcome.value = GrandMean(hist.returned)

C2_ZeroFolds ==
  (Ended /\ N = 0 /\ outcome.error # "SplitterError") =>
     /\ hist.combined = << <<>> >>
     /\ outcome = Return(GrandMean(<<>>))

\* C3: the value a run returns is the value the run returns on an engine with
\* no state enabled, given the same folds and the same predictor.
C3_TogglesKeepValue ==
  outcome.kind = "returned" => outcome.value = GrandMean(ref.results)

\* C4: after a run that returns, the TransferError the run started with has
\* the enablement it had before the run.
C4_RestoredAfterReturn ==
  outcome.kind = "returned" => inst[start.held].enabled = start.enabled

\* C5: after a run in which the splitter or an evaluation raised, the
\* TransferError the run started with has the enablement it had before the run.
C5_RestoredAfterRaise ==
  (Ended /\ outcome.error \in {"EvalError", "SplitterError"}) =>
     inst[start.held].enabled = start.enabled

\* C6 as stated: with transerrors enabled the engine holds, after a run, the
\* instance that evaluated the fold marked last; with transerrors disabled it
\* holds the instance it was constructed with, always.
C6_AsStated ==
  /\ "transerrors" \notin enabled => held = 1
  /\ (Ended /\ "transerrors" \in enabled) =>
       \A i \in 1..N : Lastsplit(hist.folds[i]) => held = hist.evalBy[i]

\* C6 amended: with transerrors enabled the engine holds, after a run that
\* returned, the instance that evaluated the final fold yielded, which is the
\* instance the run started with when that fold is marked last; with
\* transerrors disabled it holds the instance it was constructed with, always.
C6_HeldInstance ==
  /\ "transerrors" \notin enabled => held = 1
  /\ (outcome.kind = "returned" /\ "transerrors" \in enabled) =>
       /\ held = hist.evalBy[N]
       /\ Lastsplit(hist.folds[N]) => held = start.held

C6_Witness ==
  /\ outcome.kind = "returned" /\ "transerrors" \in enabled /\ N = 2
  /\ Lastsplit(hist.folds[1]) /\ ~Lastsplit(hist.folds[2])
  /\ held = hist.evalBy[2] /\ held # hist.evalBy[1]

\* C7: once a run has initialised it, the keys of the engine's samples_error
\* are the origids of the dataset of that run, whatever the folds report.
C7_KeysAreOrigids ==
  (runs >= 1 /\ "samples_error" \in enabled) =>
     DOMAIN states.samples_error = dataset.origids

C7_Witness ==
  /\ "samples_error" \in enabled /\ outcome.error = "KeyError"
  /\ \E id \in DOMAIN hist.child[N].samples_error : id \notin dataset.origids
  /\ states.samples_error[1] # <<>>

Count(seq, x) == Cardinality({i \in DOMAIN seq : seq[i] = x})

RECURSIVE SumOf(_, _)
SumOf(seq, name) ==
  IF seq = <<>> THEN summaryClass
  ELSE Iadd(SumOf(SubSeq(seq, 1, Len(seq) - 1), name), seq[Len(seq)][name])

\* the evaluation of fold N raised
C8_Case == Ended /\ outcome.error = "EvalError"

\* C8: when the evaluation of fold k raises, the run ends with that error,
\* every fold up to k was pulled and evaluated once and none after it, the
\* combiner was not called, and the enabled accumulators hold what folds
\* 1..k-1 contributed.
C8_EvalFailureAborts ==
  C8_Case =>
    /\ Count(hist.calls, "transerror") = N
    /\ Count(hist.calls, "split") = N
    /\ Count(hist.calls, "combiner") = 0 /\ hist.combined = <<>>
    /\ Len(hist.returned) = N - 1 /\ results = hist.returned
    /\ "splits" \in enabled => states.splits = hist.folds
    /\ "transerrors" \in enabled =>
          states.transerrors = SubSeq(hist.evalBy, 1, N - 1)
    /\ "samples_error" \in enabled =>
          \A id \in DOMAIN states.samples_error :
             states.samples_error[id] =
               IF id <= N - 1 THEN <<hist.returned[id]>> ELSE <<>>
    /\ "confusion" \in enabled =>
          states.confusion = SumOf(hist.child, "confusion")
    /\ "training_confusion" \in enabled =>
          states.training_confusion = SumOf(hist.child, "training_confusion")

C8_Witness ==
  /\ C8_Case /\ N = 2 /\ enabled = EngineStates
  /\ Len(states.transerrors) = 1 /\ states.samples_error[1] # <<>>
  /\ states.confusion # summaryClass

\* C9: with expose_testdataset on, the classifier of the instance that
\* evaluates a fold holds the fold's test partition during the evaluation and
\* no classifier holds one outside an evaluation; with it off none ever does.
C9_TestdatasetScoped ==
  /\ (expose_testdataset /\ pc = "eval" /\ inst[transerror].hastestdataset) =>
        inst[transerror].testdataset = split[2].part
  /\ (expose_testdataset /\ pc # "eval") =>
        \A i \in DOMAIN inst : inst[i].testdataset = 0
  /\ ~expose_testdataset => \A i \in DOMAIN inst : inst[i].testdataset = 0

\* C10: for a classifier without a testdataset attribute, a run does what the
\* run with expose_testdataset off does: the same calls, the same per-fold
\* results, and no instance ever gets the attribute.
C10_NoSlotNoEffect ==
  (runs >= 1 /\ ~clf_hastestdataset) =>
     /\ \A i \in DOMAIN inst : ~inst[i].hastestdataset /\ inst[i].testdataset = 0
     /\ hist.calls = twin.calls
     /\ hist.returned = twin.results
     /\ outcome.error \notin {"AttributeError", "ValueError"}

C10_Witness ==
  /\ expose_testdataset /\ ~clf_hastestdataset
  /\ outcome.kind = "returned" /\ N = 2 /\ runs = 2

\* C11: after a run that returned, each of confusion and training_confusion
\* is, when enabled, the empty summary plus the element-wise sum of what the
\* evaluating TransferError held after each fold, and when disabled untouched.
C11_ConfusionSummed ==
  outcome.kind = "returned" =>
    \A name \in {"confusion", "training_confusion"} :
       IF name \in enabled
         THEN states[name].matrix = SumOf(hist.child, name).matrix
         ELSE states[name] = summaryClass

C11_Witness ==
  /\ outcome.kind = "returned" /\ N = 2
  /\ "confusion" \in enabled /\ "training_confusion" \notin enabled
  /\ hist.child[1].confusion.matrix = <<<<0, 1>>, <<1, 0>>>>
  /\ hist.child[2].confusion.matrix = <<<<1, 0>>, <<0, 1>>>>
  /\ states.confusion.matrix = <<<<1, 1>>, <<1, 1>>>>

\* C12: a dataset without labels_map never makes the run fail: the run that
\* reaches the end of the loop returns the combiner's value of all per-fold
\* results and the confusion matrices keep what was summed into them.
C12_LabelsMapBestEffort ==
  /\ outcome.error # "AttributeError"
  /\ (Ended /\ N >= 1 /\ LabelsMapError
        /\ outcome.error \notin {"EvalError", "SplitterError", "KeyError"}) =>
       /\ outcome.kind = "returned"
       /\ hist.combined = <<hist.returned>> /\ Len(hist.returned) = N
       /\ outcome.value = GrandMean(hist.returned)
       /\ \A name \in {"confusion", "training_confusion"} :
            name \in enabled => states[name] = SumOf(hist.child, name)

C12_Witness ==
  /\ outcome.kind = "returned" /\ N = 2 /\ LabelsMapError
  /\ {"confusion", "training_confusion"} \subseteq enabled
  /\ states.confusion.matrix # summaryClass.matrix
  /\ ~states.confusion.labels_map

\* the flag carried by the first partition of a fold that is present
C13_MarkedLast(sp) == (IF sp[1].part # 0 THEN sp[1] ELSE sp[2]).lastsplit

\* what the folds evaluated so far on the instance the run started with have
\* trained it on, starting untrained
C13_MotherTrained ==
  LET own == {i \in 1..Len(hist.returned) :
                 hist.evalBy[i] = start.held /\ hist.folds[i][1].part # 0}
  IN IF own = {} THEN 0
     ELSE hist.folds[CHOOSE i \in own : \A j \in own : j <= i][1].part

\* C13: a fold is evaluated by the engine's own instance when transerrors is
\* disabled; when enabled, by the engine's own instance iff the first present
\* partition is marked last, and otherwise by a copy that is neither the
\* engine's instance nor an earlier evaluator, whose training leaves the
\* training state of the engine's instance alone.
C13_EvaluatorChoice ==
  runs >= 1 =>
    /\ \A i \in 1..N :
         IF "transerrors" \notin enabled \/ C13_MarkedLast(hist.folds[i])
           THEN hist.evalBy[i] = start.held
           ELSE /\ hist.evalBy[i] # start.held
                /\ \A j \in 1..(i - 1) : hist.evalBy[j] # hist.evalBy[i]
    /\ "transerrors" \in enabled => inst[start.held].trained = C13_MotherTrained

C13_Witness ==
  /\ "transerrors" \in enabled /\ pc = "loop" /\ Len(hist.returned) = 2
  /\ hist.folds[1][1].part = 0 /\ hist.folds[1][2].lastsplit
  /\ hist.evalBy[1] = held /\ hist.evalBy[2] # held
  /\ inst[hist.evalBy[2]].trained = 2 /\ inst[held].trained = 0

\* C14: whenever a fold is about to be evaluated on a copy, the instance the
\* copy was made of is untrained.
C14_CopiesUntrained ==
  (pc = "eval" /\ transerror # held) => inst[held].trained = 0

\* C15: after a run over N >= 1 folds that returned, the engine holds the
\* instance that evaluated fold N: the one the run started with when
\* transerrors is disabled or fold N is marked last, else the copy of fold N.
C15_HoldsLastUsed ==
  (outcome.kind = "returned" /\ N >= 1) =>
     /\ held = hist.evalBy[N]
     /\ IF "transerrors" \notin enabled \/ C13_MarkedLast(hist.folds[N])
          THEN held = start.held
          ELSE /\ held # start.held
               /\ \A j \in 1..(N - 1) : held # hist.evalBy[j]
               /\ "transerrors" \in enabled => states.transerrors[N] = held

C15_Witness ==
  /\ outcome.kind = "returned" /\ N = 2 /\ "transerrors" \in enabled
  /\ ~C13_MarkedLast(hist.folds[1]) /\ ~C13_MarkedLast(hist.folds[2])
  /\ held = hist.evalBy[2] /\ held # start.held /\ hist.evalBy[1] # start.held

\* C16: after a run that returned, each enabled one of splits, transerrors and
\* results has one entry per fold, in fold order: the fold, the instance that
\* evaluated it, its error value; and results holds what it holds when no
\* other state is enabled.
C16_OnePerFold ==
  outcome.kind = "returned" =>
    /\ "splits" \in enabled => states.splits = hist.folds
    /\ "transerrors" \in enabled => states.transerrors = hist.evalBy
    /\ "results" \in enabled =>
          /\ states.results = hist.returned /\ Len(states.results) = N
          /\ states.results = ref.results

\* C17: once a run has begun, and after it was aborted, every enabled
\* accumulator holds contributions of this run only; results, stored at the
\* end of a run only, holds nothing.
C17_ResetFirst ==
  (runs >= 1 /\ (pc # "idle" \/ outcome.kind = "raised")) =>
    /\ "results" \in enabled => states.results = <<>>
    /\ "splits" \in enabled => states.splits = hist.folds
    /\ "transerrors" \in enabled =>
          states.transerrors = SubSeq(hist.evalBy, 1, Len(hist.returned))
    /\ \A name \in {"confusion", "training_confusion"} :
          name \in enabled =>
             states[name] = SumOf(SubSeq(hist.child, 1, Len(results)), name)
    /\ "samples_error" \in enabled =>
          \A id \in DOMAIN states.samples_error :
             states.samples_error[id] =
               IF id <= Len(results) THEN <<hist.returned[id]>> ELSE <<>>

\* what the folds evaluated so far have trained the classifier on, starting
\* from its state when the run began
C18_Trained ==
  LET own == {i \in 1..Len(hist.returned) : hist.folds[i][1].part # 0}
  IN IF own = {} THEN start.trained
     ELSE hist.folds[CHOOSE i \in own : \A j \in own : j <= i][1].part

\* C18: with transerrors disabled a run neither untrains nor copies: every
\* fold runs on the one instance, whose training state is at every point what
\* the last training left, across folds and across runs.
C18_LiveStateKept ==
  ("transerrors" \notin enabled /\ runs >= 1) =>
     /\ Count(hist.calls, "untrain") = 0
     /\ Count(hist.calls, "deepcopy") = 0
     /\ DOMAIN inst = {1}
     /\ \A i \in 1..N : hist.evalBy[i] = 1
     /\ inst[1].trained = C18_Trained

C18_Witness ==
  /\ "transerrors" \notin enabled /\ runs = 2 /\ pc = "eval" /\ N = 1
  /\ split[1].part = 0 /\ start.trained = 2 /\ inst[transerror].trained = 2

\* C19: a run applies the temporary enablement at most once and undoes it at
\* most once and only after applying it; with none of confusion,
\* training_confusion and samples_error enabled it does neither, and the
\* enablement of every TransferError stays what it was.
C19_OverrideOnlyWhenNeeded ==
  runs >= 1 =>
    /\ Count(hist.calls, "_changeTemporarily") <= 1
    /\ Count(hist.calls, "_resetEnabledTemporarily")
         <= Count(hist.calls, "_changeTemporarily")
    /\ enabled \cap ChildStates = {} =>
         /\ Count(hist.calls, "_changeTemporarily") = 0
         /\ Count(hist.calls, "_resetEnabledTemporarily") = 0
         /\ \A i \in DOMAIN inst :
              inst[i].enabled = start.enabled /\ inst[i].stored = <<>>

C19_Witness ==
  /\ enabled \cap ChildStates = {} /\ "transerrors" \in enabled
  /\ outcome.kind = "returned" /\ N = 2 /\ Cardinality(DOMAIN inst) = 3
  /\ inst[held].enabled = {"training_confusion"}

====
